---------------------------- MODULE Spec2Model ----------------------------
(***************************************************************************)
(* A model of the oxide library: the KNNClassifier of src/src/knn.rs and   *)
(* the vector helpers and the Counter of src/src/util.rs.                  *)
(*                                                                         *)
(* Conventions.                                                            *)
(*  - Option<T> is a sequence of length 0 (None) or 1 (Some(x)).           *)
(*  - A call's outcome is a record: Ok(v) for a returned value v, or       *)
(*    Panic(m) for a panic with message m.  A panic unwinds the caller,    *)
(*    so no operation follows a panicked call.                             *)
(*  - f64 coordinates are modelled by small naturals, on which the f64     *)
(*    subtraction, product, sum and comparison of the code are exact.      *)
(*  - Vec<T> is a 1-based sequence; the indices the code stores in         *)
(*    best_neigh are kept 0-based, as in the code.                         *)
(*  - The iteration order of a HashMap is unspecified (and differs from    *)
(*    one map to the next, each having its own RandomState), so an         *)
(*    operation that iterates a map has one outcome per order.             *)
(***************************************************************************)
EXTENDS Integers, Sequences, FiniteSets

VARIABLES
    k,          \* KNNClassifier.k
    data,       \* KNNClassifier.data   : Option<Vec<Vec<f64>>>
    labels,     \* KNNClassifier.labels : Option<Vec<T>>
    map,        \* Counter.map          : HashMap<T, u64>
    op,         \* the last call
    arg,        \* the arguments of the last call
    ret,        \* the outcome of the last call
    best_neigh, \* predict_one's local best_neigh at the end of its scan
    fitted,     \* history: the arguments of the classifier's last fit, if any
    inserted    \* history: the items inserted into the counter, in order

vars == <<k, data, labels, map, op, arg, ret, best_neigh, fitted, inserted>>

knnVars == <<k, data, labels, best_neigh, fitted>>
ctrVars == <<map, inserted>>

----------------------------------------------------------------------------
(* Bounds and input domains.                                               *)

MaxCoord == 2       \* coordinates range over 0..MaxCoord
MaxTrain == 3       \* training sets of the scan specification: at most this long
MaxK == 4           \* neighbour counts of the scan specification: 0..MaxK
MaxFit == 2         \* training sets of the lifecycle specification
MaxBatch == 2       \* query batches of the lifecycle specification
MaxInserts == 4     \* items inserted into a counter

Labels == {"good", "bad"}
Items == {"good", "bad", "ugly"}

\* One-dimensional feature vectors.
Vectors == {<<c>> : c \in 0..MaxCoord}
\* The two extreme vectors: the inputs of the lifecycle specification.
EndVectors == {<<0>>, <<MaxCoord>>}

SeqsUpTo(S, n) == UNION {[1..m -> S] : m \in 0..n}

----------------------------------------------------------------------------
(* Option and call outcomes.                                               *)

None == <<>>
Some(x) == <<x>>

Ok(v) == [tag |-> "ok", val |-> v, msg |-> ""]
Panic(m) == [tag |-> "panic", val |-> None, msg |-> m]
Unit == Ok(None)

Min2(a, b) == IF a < b THEN a ELSE b

----------------------------------------------------------------------------
(* util.rs: vector helpers.                                                *)

RECURSIVE DotFold(_, _, _, _)
DotFold(v1, v2, i, acc) ==
    IF i > Min2(Len(v1), Len(v2)) THEN acc
    ELSE DotFold(v1, v2, i + 1, acc + v1[i] * v2[i])

dot_product(v1, v2) == DotFold(v1, v2, 1, 0)

squared_distance(v1, v2) ==
    LET delta == [i \in 1..Min2(Len(v1), Len(v2)) |-> v1[i] - v2[i]]
    IN  dot_product(delta, delta)

----------------------------------------------------------------------------
(* util.rs: Counter.                                                       *)

EmptyMap == [x \in {} |-> 0]

insert_no_increment(m, item) ==
    [x \in DOMAIN m \cup {item} |-> IF x = item THEN 1 ELSE m[x]]

insert(m, item) ==
    LET new_val == IF item \in DOMAIN m THEN m[item] + 1 ELSE 1
    IN  [x \in DOMAIN m \cup {item} |-> IF x = item THEN new_val ELSE m[x]]

RECURSIVE InsertAll(_, _, _)
InsertAll(m, it, i) ==
    IF i > Len(it) THEN m ELSE InsertAll(insert(m, it[i]), it, i + 1)

with_iterator(it) == InsertAll(EmptyMap, it, 1)

get_zero_default(m, item) ==
    IF item \in DOMAIN m THEN Some(m[item]) ELSE Some(0)

get(m, item) ==
    IF item \in DOMAIN m THEN Some(m[item]) ELSE None

\* The orders in which a map with key set S may be iterated.
IterOrders(S) ==
    {o \in [1..Cardinality(S) -> S] : \A i, j \in DOMAIN o : o[i] = o[j] => i = j}

RECURSIVE MostFrequentScanStale(_, _, _, _, _)
MostFrequentScanStale(m, order, i, rval, rfreq) ==
    IF i > Len(order) THEN [rval |-> rval, rfreq |-> rfreq]
    ELSE IF m[order[i]] > rfreq
         THEN MostFrequentScanStale(m, order, i + 1, Some(order[i]), rfreq)
         ELSE MostFrequentScanStale(m, order, i + 1, rval, rfreq)

\* The loop of most_frequent over the entries in the order `order`.
RECURSIVE MostFrequentScan(_, _, _, _, _)
MostFrequentScan(m, order, i, rval, rfreq) ==
    IF i > Len(order) THEN [rval |-> rval, rfreq |-> rfreq]
    ELSE IF m[order[i]] > rfreq
         THEN MostFrequentScan(m, order, i + 1, Some(order[i]), m[order[i]])
         ELSE MostFrequentScan(m, order, i + 1, rval, rfreq)

\* most_frequent under one iteration order.
MostFrequentIn(m, order) ==
    IF DOMAIN m = {} THEN Ok(None)
    ELSE LET r == MostFrequentScan(m, order, 1, None, 0)
         IN  IF r.rval = None THEN Panic("unwrap on None")
             ELSE Ok(Some(<<r.rval[1], r.rfreq>>))

\* The outcomes of most_frequent: one per iteration order.
most_frequent(m) == {MostFrequentIn(m, o) : o \in IterOrders(DOMAIN m)}

----------------------------------------------------------------------------
(* knn.rs: predict_one's scan for the candidate set.                       *)

\* The inner loop "for j in 0..self.k" with <= in place of <.
RECURSIVE ReplaceFirstLe(_, _, _, _, _)
ReplaceFirstLe(st, j, kk, dist, i) ==
    IF j >= kk THEN st
    ELSE IF dist <= st.best_dists[j + 1]
         THEN [best_neigh |-> [st.best_neigh EXCEPT ![j + 1] = i],
               best_dists |-> [st.best_dists EXCEPT ![j + 1] = dist]]
         ELSE ReplaceFirstLe(st, j + 1, kk, dist, i)

\* The inner loop "for j in 0..self.k": the first slot j whose distance
\* exceeds dist takes the new point, and the loop breaks.
RECURSIVE ReplaceFirst(_, _, _, _, _)
ReplaceFirst(st, j, kk, dist, i) ==
    IF j >= kk THEN st
    ELSE IF dist < st.best_dists[j + 1]
         THEN [best_neigh |-> [st.best_neigh EXCEPT ![j + 1] = i],
               best_dists |-> [st.best_dists EXCEPT ![j + 1] = dist]]
         ELSE ReplaceFirst(st, j + 1, kk, dist, i)

\* One iteration of "for (i, x_train) in data.iter().enumerate()".
ScanStep(st, kk, x, i, x_train) ==
    LET dist == squared_distance(x, x_train)
    IN  IF Len(st.best_neigh) < kk
        THEN [best_neigh |-> Append(st.best_neigh, i),
              best_dists |-> Append(st.best_dists, dist)]
        ELSE ReplaceFirst(st, 0, kk, dist, i)

RECURSIVE ScanFrom(_, _, _, _, _)
ScanFrom(st, kk, train, x, i) ==
    IF i >= Len(train) THEN st
    ELSE ScanFrom(ScanStep(st, kk, x, i, train[i + 1]), kk, train, x, i + 1)

\* best_neigh and best_dists when the scan of the training set ends.
Scan(kk, train, x) ==
    ScanFrom([best_neigh |-> <<>>, best_dists |-> <<>>], kk, train, x, 0)

----------------------------------------------------------------------------
(* knn.rs: predict_one and predict, as sets of outcomes.                   *)

\* The vote: the counter over the candidates' labels, then
\* ctr.most_frequent().unwrap().
Vote(neigh, lbls) ==
    IF \E j \in DOMAIN neigh : neigh[j] + 1 > Len(lbls)
    THEN {Panic("index out of bounds")}
    ELSE LET ctr == with_iterator([j \in DOMAIN neigh |-> lbls[neigh[j] + 1]])
         IN  {IF r.tag = "ok" /\ r.val # None
              THEN Ok(Some(r.val[1][1]))
              ELSE Panic("unwrap on None") : r \in most_frequent(ctr)}

predict_one(kk, dat, lab, x) ==
    IF dat = None THEN {Ok(None)}
    ELSE IF lab = None THEN {Panic("Empty labels after training")}
    ELSE Vote(Scan(kk, dat[1], x).best_neigh, lab[1])

\* The loop of predict with the results pushed at the front.
RECURSIVE PredictLoopFront(_, _, _, _, _, _)
PredictLoopFront(kk, dat, lab, batch, i, acc) ==
    IF i > Len(batch) THEN {Ok(Some(acc))}
    ELSE UNION {IF r.tag = "ok" /\ r.val # None
                THEN PredictLoopFront(kk, dat, lab, batch, i + 1, <<r.val[1]>> \o acc)
                ELSE {Panic("unwrap on None")}
                : r \in predict_one(kk, dat, lab, batch[i])}

\* "for x_test in data { ret.push(self.predict_one(x_test).unwrap()) }"
RECURSIVE PredictLoop(_, _, _, _, _, _)
PredictLoop(kk, dat, lab, batch, i, acc) ==
    IF i > Len(batch) THEN {Ok(Some(acc))}
    ELSE UNION {IF r.tag = "ok" /\ r.val # None
                THEN PredictLoop(kk, dat, lab, batch, i + 1, Append(acc, r.val[1]))
                ELSE {IF r.tag = "panic" THEN r ELSE Panic("unwrap on None")}
                : r \in predict_one(kk, dat, lab, batch[i])}

predict_unchecked(kk, dat, lab, batch) ==
    PredictLoop(kk, dat, lab, batch, 1, <<>>)

predict(kk, dat, lab, batch) ==
    IF dat = None THEN {Ok(None)}
    ELSE PredictLoop(kk, dat, lab, batch, 1, <<>>)

\* The fields new(k) gives the classifier.
new(kk) == [k |-> kk, data |-> None, labels |-> None]

fit_once(d, l) ==
    IF data = None THEN [data |-> Some(d), labels |-> Some(l)]
    ELSE [data |-> data, labels |-> labels]

fit_data_only(d, l) == [data |-> Some(d), labels |-> labels]

\* The fields fit(data, labels) stores.
fit(d, l) == [data |-> Some(d), labels |-> Some(l)]

----------------------------------------------------------------------------
(* The calls, as actions.                                                  *)

Running == ret.tag # "panic"

New(kk) ==
    /\ Running
    /\ k' = new(kk).k
    /\ data' = new(kk).data
    /\ labels' = new(kk).labels
    /\ fitted' = None
    /\ best_neigh' = <<>>
    /\ op' = "new"
    /\ arg' = <<kk>>
    /\ ret' = Unit
    /\ UNCHANGED ctrVars

Fit(d, l) ==
    /\ Running
    /\ data' = fit(d, l).data
    /\ labels' = fit(d, l).labels
    /\ fitted' = Some(<<d, l>>)
    /\ best_neigh' = <<>>
    /\ op' = "fit"
    /\ arg' = <<d, l>>
    /\ ret' = Unit
    /\ UNCHANGED <<k, ctrVars>>

PredictOne(x) ==
    /\ Running
    /\ op' = "predict_one"
    /\ arg' = <<x>>
    /\ ret' \in predict_one(k, data, labels, x)
    /\ best_neigh' = IF data = None THEN <<>> ELSE Scan(k, data[1], x).best_neigh
    /\ UNCHANGED <<k, data, labels, fitted, ctrVars>>

Predict(batch) ==
    /\ Running
    /\ op' = "predict"
    /\ arg' = <<batch>>
    /\ ret' \in predict(k, data, labels, batch)
    /\ best_neigh' = <<>>
    /\ UNCHANGED <<k, data, labels, fitted, ctrVars>>

\* The lifecycle of one classifier: any sequence of calls.
Init ==
    /\ k \in 0..MaxFit
    /\ data = None
    /\ labels = None
    /\ fitted = None
    /\ best_neigh = <<>>
    /\ op = "new"
    /\ arg = <<k>>
    /\ ret = Unit
    /\ map = EmptyMap
    /\ inserted = <<>>

Next ==
    \/ \E kk \in 0..MaxFit : New(kk)
    \/ \E d \in SeqsUpTo(EndVectors, MaxFit), l \in SeqsUpTo(Labels, MaxFit) : Fit(d, l)
    \/ \E x \in EndVectors : PredictOne(x)
    \/ \E batch \in SeqsUpTo(EndVectors, MaxBatch) : Predict(batch)

Spec == Init /\ [][Next]_vars

\* predict_one on a fitted classifier: the inputs drawn from larger sets.
InitScan ==
    /\ k \in 0..MaxK
    /\ \E d \in SeqsUpTo(Vectors, MaxTrain), l \in SeqsUpTo(Labels, MaxTrain) :
          /\ data = fit(d, l).data
          /\ labels = fit(d, l).labels
          /\ fitted = Some(<<d, l>>)
          /\ arg = <<d, l>>
    /\ best_neigh = <<>>
    /\ op = "fit"
    /\ ret = Unit
    /\ map = EmptyMap
    /\ inserted = <<>>

NextScan == \E x \in Vectors : PredictOne(x)

SpecScan == InitScan /\ [][NextScan]_vars

\* A counter: any sequence of calls on it.
Insert(item) ==
    /\ Running
    /\ Len(inserted) < MaxInserts
    /\ map' = insert(map, item)
    /\ inserted' = Append(inserted, item)
    /\ op' = "insert"
    /\ arg' = <<item>>
    /\ ret' = Unit
    /\ UNCHANGED knnVars

WithIterator(it) ==
    /\ Running
    /\ map' = with_iterator(it)
    /\ inserted' = it
    /\ op' = "with_iterator"
    /\ arg' = <<it>>
    /\ ret' = Unit
    /\ UNCHANGED knnVars

Get(item) ==
    /\ Running
    /\ op' = "get"
    /\ arg' = <<item>>
    /\ ret' = Ok(get(map, item))
    /\ UNCHANGED <<ctrVars, knnVars>>

MostFrequent ==
    /\ Running
    /\ op' = "most_frequent"
    /\ arg' = <<>>
    /\ ret' \in most_frequent(map)
    /\ UNCHANGED <<ctrVars, knnVars>>

InitCounter ==
    /\ map = EmptyMap
    /\ inserted = <<>>
    /\ op = "Counter::new"
    /\ arg = <<>>
    /\ ret = Unit
    /\ k = 0
    /\ data = None
    /\ labels = None
    /\ fitted = None
    /\ best_neigh = <<>>

NextCounter ==
    \/ \E item \in Items : Insert(item)
    \/ \E it \in SeqsUpTo(Items, MaxInserts) : WithIterator(it)
    \/ \E item \in Items : Get(item)
    \/ MostFrequent

SpecCounter == InitCounter /\ [][NextCounter]_vars

----------------------------------------------------------------------------
(* The claims.                                                             *)

\* The number of occurrences of item in the sequence seq.
Count(item, seq) == Cardinality({i \in DOMAIN seq : seq[i] = item})

\* The squared distance from the query x to the training point of 0-based index i.
DistTo(x, i) == squared_distance(x, data[1][i + 1])

\* A classifier fitted with a non-empty training set and as many labels.
FittedAligned ==
    /\ data # None
    /\ labels # None
    /\ Len(data[1]) >= 1
    /\ Len(data[1]) = Len(labels[1])

\* C1: on a classifier that was never fitted, whatever its k, predict_one
\* on any query and predict on any batch return None and do not panic.
UntrainedPredictsNone ==
    (fitted = None /\ op \in {"predict", "predict_one"}) => ret = Ok(None)

UntrainedPredictWitness ==
    /\ fitted = None
    /\ k = 0
    /\ op = "predict"
    /\ Len(arg[1]) = MaxBatch
    /\ ret = Ok(None)

StoredIsLastFit ==
    IF fitted = None
    THEN data = None /\ labels = None
    ELSE data = Some(fitted[1][1]) /\ labels = Some(fitted[1][2])

QueriesKeepState ==
    op' \in {"predict", "predict_one"} => UNCHANGED <<k, data, labels>>

\* C2: the stored data and labels are both None while no fit has occurred
\* and are otherwise exactly the arguments of the most recent fit; predict
\* and predict_one change none of data, labels and k.
StoredStateIsLastFit == []StoredIsLastFit /\ [][QueriesKeepState]_vars

StoredStateWitness ==
    /\ op = "predict_one"
    /\ fitted # None
    /\ Len(fitted[1][1]) = MaxFit
    /\ Len(fitted[1][2]) = 1
    /\ data = Some(fitted[1][1])
    /\ labels = Some(fitted[1][2])

\* C3: when the candidate set ends up empty (k = 0 with a non-empty
\* training set, or an empty training set), predict_one returns None
\* instead of panicking.
EmptyCandidatesGiveNone ==
    (/\ op = "predict_one"
     /\ data # None
     /\ labels # None
     /\ (k = 0 \/ Len(data[1]) = 0))
    => ret = Ok(None)

\* C4, as stated: the i-th label of predict's list equals the label that
\* predict_one returns for the i-th query (here: in a call of predict_one
\* that follows the call of predict).
PredictEqualsPredictOne ==
    [][(/\ op = "predict"
        /\ FittedAligned
        /\ k >= 1
        /\ op' = "predict_one")
       => /\ ret.tag = "ok"
          /\ ret.val # None
          /\ Len(ret.val[1]) = Len(arg[1])
          /\ \A i \in DOMAIN arg[1] :
                arg[1][i] = arg'[1] => ret' = Ok(Some(ret.val[1][i]))]_vars

\* C4, amended: predict on M queries returns Some(list) of exactly M
\* labels, the i-th being a label that predict_one can return for the i-th
\* query (so the label predict_one returns, when it can return only one).
PredictIsPredictOnePerQuery ==
    (op = "predict" /\ FittedAligned /\ k >= 1)
    => /\ ret.tag = "ok"
       /\ ret.val # None
       /\ Len(ret.val[1]) = Len(arg[1])
       /\ \A i \in DOMAIN arg[1] :
             Ok(Some(ret.val[1][i])) \in predict_one(k, data, labels, arg[1][i])

PredictBatchWitness ==
    /\ op = "predict"
    /\ FittedAligned
    /\ k >= 1
    /\ ret.tag = "ok"
    /\ ret.val # None
    /\ Len(ret.val[1]) = 2
    /\ ret.val[1][1] # ret.val[1][2]

\* The 0-based index of the training point nearest to x: the lowest index
\* among those at the minimum squared distance.
NearestIdx(x) ==
    CHOOSE i \in 0..(Len(data[1]) - 1) :
        \A j \in 0..(Len(data[1]) - 1) :
            /\ DistTo(x, i) <= DistTo(x, j)
            /\ DistTo(x, j) = DistTo(x, i) => i <= j

\* C5: with k = 1, predict_one returns the label of the training point at
\* the minimum squared distance to the query, the lowest-index one when
\* several share the minimum.
NearestNeighbourLabel ==
    (op = "predict_one" /\ FittedAligned /\ k = 1)
    => ret = Ok(Some(labels[1][NearestIdx(arg[1]) + 1]))

NearestNeighbourWitness ==
    /\ op = "predict_one"
    /\ FittedAligned
    /\ k = 1
    /\ Len(data[1]) = 3
    /\ NearestIdx(arg[1]) = 1
    /\ DistTo(arg[1], 2) = DistTo(arg[1], 1)
    /\ labels[1][2] # labels[1][3]
    /\ ret = Ok(Some(labels[1][2]))

\* C6: get(x) returns Some(n), n >= 1 the number of times x was inserted,
\* and None for an item that was never inserted.
GetCountsOccurrences ==
    op = "get"
    => ret = Ok(IF Count(arg[1], inserted) = 0
                THEN None
                ELSE Some(Count(arg[1], inserted)))

GetWitness ==
    /\ op = "get"
    /\ ret = Ok(Some(2))
    /\ Len(inserted) = 3
    /\ \E x \in Items : Count(x, inserted) = 0

UniqueMax(X, seq) ==
    /\ Count(X, seq) > 0
    /\ \A Y \in Items \ {X} : Count(Y, seq) < Count(X, seq)

\* C7: most_frequent returns (X, occurrences of X) when X occurs strictly
\* more often than every other item, whatever the iteration order of the
\* map, and None on an empty counter.
MostFrequentUniqueMax ==
    op = "most_frequent"
    => /\ inserted = <<>> => ret = Ok(None)
       /\ \A X \in Items :
             UniqueMax(X, inserted) => ret = Ok(Some(<<X, Count(X, inserted)>>))

MostFrequentWitness ==
    /\ op = "most_frequent"
    /\ Cardinality(DOMAIN map) = 3
    /\ \E X \in Items : UniqueMax(X, inserted) /\ ret = Ok(Some(<<X, 2>>))

\* The candidate set as a set of 0-based indices.
Candidates == {best_neigh[j] : j \in DOMAIN best_neigh}

\* C8: with 1 <= k <= n, when the scan ends the candidate set holds k
\* distinct training indices and no training point outside it is strictly
\* closer to the query than some candidate.
CandidatesAreKNearest ==
    (op = "predict_one" /\ FittedAligned /\ 1 <= k /\ k <= Len(data[1]))
    => /\ Len(best_neigh) = k
       /\ Cardinality(Candidates) = k
       /\ Candidates \subseteq 0..(Len(data[1]) - 1)
       /\ \A o \in (0..(Len(data[1]) - 1)) \ Candidates :
             \A c \in Candidates : ~(DistTo(arg[1], o) < DistTo(arg[1], c))

\* C9: with 1 <= n < k, every training point is admitted, so the candidate
\* set is {0..n-1}, and the returned label is one with the maximum number
\* of occurrences among the n training labels.
FewerPointsThanK ==
    (op = "predict_one" /\ FittedAligned /\ Len(data[1]) < k)
    => /\ Len(best_neigh) = Len(data[1])
       /\ Candidates = 0..(Len(data[1]) - 1)
       /\ ret.tag = "ok"
       /\ ret.val # None
       /\ \A l \in Labels : Count(l, labels[1]) <= Count(ret.val[1], labels[1])

FewerPointsWitness ==
    /\ op = "predict_one"
    /\ FittedAligned
    /\ Len(data[1]) = 3
    /\ k = 4
    /\ \E l \in Labels : Count(l, labels[1]) = 1
    /\ ret.tag = "ok"
    /\ ret.val # None
    /\ Count(ret.val[1], labels[1]) = 2

\* C10: data is Some if and only if labels is Some, and no call panics
\* with "Empty labels after training".
DataIffLabels ==
    /\ (data = None) <=> (labels = None)
    /\ ret.msg # "Empty labels after training"

DataIffLabelsWitness ==
    /\ op = "predict_one"
    /\ data # None
    /\ labels # None
    /\ Len(data[1]) # Len(labels[1])
    /\ ret.tag = "ok"

============================================================================
